---- MODULE Spec2Model ----
(***************************************************************************)
(* TokenVault: signature-authorised withdrawals (EIP-712), the per-account *)
(* nonce, the deadline check and the owner operations, as a state machine. *)
(*                                                                         *)
(* Hashing is modelled symbolically: keccak256 is an injective tag on the  *)
(* encoded value (collision resistance), and ECDSA recovery returns the    *)
(* signing key exactly when the digest it is given is the digest that was  *)
(* signed; on any other digest it returns an address nobody controls       *)
(* (unforgeability).                                                       *)
(*                                                                         *)
(* A transaction that reverts leaves the contract state untouched (EVM     *)
(* semantics); the only trace of it is the receipt `last`.                 *)
(***************************************************************************)
EXTENDS Integers, Sequences, FiniteSets, TLC

VARIABLES
    nonces,     \* TokenVault.nonces: account -> uint256
    owner,      \* TokenVault.owner
    bal,        \* token.balanceOf: address -> uint256 (the ERC20 behind `token`)
    now,        \* block.timestamp
    events,     \* the Withdraw events emitted so far, in order
    redeemed,   \* history: the withdrawTo calls (recipient, amount, deadline, signature) that succeeded, in order
    last,       \* receipt of the transaction just executed (None when consumed)
    race,       \* two transactions submitted together and not yet both mined
    sessions,   \* off chain: each client session's position in the issue, sign, process flow
    backendDomain,  \* off chain: the value of the backend's DOMAIN as deployed
    lastRead,   \* off chain: the most recent answer a read-only query gave
    reported,   \* history: the errors processWithdrawal has reported, each with what was wrong
    receiver    \* the Receiver contract: its owner, and the balances and allowances of its token

\* the state kept off chain
offchain == <<sessions, backendDomain, lastRead, reported, receiver>>

vars == <<nonces, owner, bal, now, events, redeemed, last, race, offchain>>

---------------------------------------------------------------------------
(* Bounds of the model *)

MaxNonce == 2
MaxTime == 2
MaxAmount == 2
InitVaultBalance == 2

---------------------------------------------------------------------------
(* Addresses *)

Accounts == {"alice", "bob"}
VaultAddr == "vault"
ZeroAddr == "zero"
\* what ecrecover yields for a signature checked against a digest that was not signed
StrangerAddr == "stranger"
Deployer == "alice"

Amounts == 1..MaxAmount
Deadlines == 0..(MaxTime - 1)
NonceValues == 0..MaxNonce

None == [op |-> "none"]

---------------------------------------------------------------------------
(* EIP-712 hashing *)

Keccak(x) == <<"keccak256", x>>

SIGNING_DOMAIN == "WithdrawAuthorization"
SIGNATURE_VERSION == "1"
ChainId == 1

WITHDRAW_TYPEHASH ==
    Keccak("Withdraw(address recipient,uint256 amount,uint256 nonce,uint256 deadline)")

EIP712DOMAIN_TYPEHASH ==
    Keccak("EIP712Domain(string name,string version,uint256 chainId,address verifyingContract)")

\* the domain the vault's constructor fixes: EIP712(SIGNING_DOMAIN, SIGNATURE_VERSION),
\* block.chainid and address(this)
VaultDomain ==
    [name |-> SIGNING_DOMAIN, version |-> SIGNATURE_VERSION,
     chainId |-> ChainId, verifyingContract |-> VaultAddr]

\* domains that differ from the vault's in exactly one field
ForeignDomains ==
    { [VaultDomain EXCEPT !.name = "OtherAuthorization"],
      [VaultDomain EXCEPT !.version = "2"],
      [VaultDomain EXCEPT !.chainId = 5],
      [VaultDomain EXCEPT !.verifyingContract = "vault2"] }

Domains == {VaultDomain} \cup ForeignDomains

\* a domain separator that leaves the chain id out
DomainSeparatorNoChain(d) ==
    Keccak(<<EIP712DOMAIN_TYPEHASH, Keccak(d.name), Keccak(d.version),
             d.verifyingContract>>)

DomainSeparator(d) ==
    Keccak(<<EIP712DOMAIN_TYPEHASH, Keccak(d.name), Keccak(d.version),
             d.chainId, d.verifyingContract>>)

\* a struct hash that leaves the nonce out
\* a struct hash that leaves the amount out
StructHashNoAmount(recipient, amount, nonce, deadline) ==
    Keccak(<<WITHDRAW_TYPEHASH, recipient, nonce, deadline>>)

StructHashNoNonce(recipient, amount, nonce, deadline) ==
    Keccak(<<WITHDRAW_TYPEHASH, recipient, amount, deadline>>)

\* keccak256(abi.encode(WITHDRAW_TYPEHASH, recipient, amount, nonce, deadline))
StructHash(recipient, amount, nonce, deadline) ==
    Keccak(<<WITHDRAW_TYPEHASH, recipient, amount, nonce, deadline>>)

\* EIP712._hashTypedDataV4 under a given domain
TypedDataHash(d, structHash) ==
    Keccak(<<"\\x19\\x01", DomainSeparator(d), structHash>>)

\* a vault hashing under another chain id than the one signers use
HashTypedDataV4WrongChain(structHash) ==
    TypedDataHash([VaultDomain EXCEPT !.chainId = 5], structHash)

\* the vault's own _hashTypedDataV4(structHash)
HashTypedDataV4(structHash) == TypedDataHash(VaultDomain, structHash)

---------------------------------------------------------------------------
(* Signatures *)

\* The signature the holder of `key` makes when asked to sign message m
\* under domain d (signTypedData). It is a signature over the digest of
\* (d, m), which DigestSigned recomputes; no operation of the vault reads
\* the fields domain and message otherwise.
SignTyped(key, d, m) ==
    [kind |-> "sig", key |-> key, domain |-> d, message |-> m]

\* the digest a well-formed signature was made over
DigestSigned(signature) ==
    TypedDataHash(signature.domain,
                  StructHash(signature.message.recipient, signature.message.amount,
                             signature.message.nonce, signature.message.deadline))

\* bytes that are no well-formed 65-byte signature
Malformed == [kind |-> "malformed"]

\* the signatures a call is tried with: the authorization recipient signs for
\* this call at the stored nonce, every signature that differs from it in one
\* place (the signing key, one field of the domain, one field of the message),
\* and malformed bytes
SignatureFamily(recipient, amount, nonce, deadline) ==
    LET m == [recipient |-> recipient, amount |-> amount, nonce |-> nonce,
              deadline |-> deadline]
    IN {SignTyped(recipient, VaultDomain, m)}
       \cup {SignTyped(k, VaultDomain, m) : k \in Accounts}
       \cup {SignTyped(recipient, d, m) : d \in ForeignDomains}
       \cup {SignTyped(recipient, VaultDomain, [m EXCEPT !.recipient = r]) : r \in Accounts}
       \cup {SignTyped(recipient, VaultDomain, [m EXCEPT !.amount = a]) : a \in Amounts}
       \cup {SignTyped(recipient, VaultDomain, [m EXCEPT !.nonce = n]) : n \in NonceValues}
       \cup {SignTyped(recipient, VaultDomain, [m EXCEPT !.deadline = d]) : d \in Deadlines}
       \cup {Malformed}

\* the families, tabulated once
SignatureTable ==
    { <<c, SignatureFamily(c[1], c[2], c[3], c[4])>> :
        c \in Accounts \X Amounts \X NonceValues \X Deadlines }

Signatures(recipient, amount, nonce, deadline) ==
    (CHOOSE p \in SignatureTable : p[1] = <<recipient, amount, nonce, deadline>>)[2]

\* ECDSA.recover(digest, signature); "revert" stands for its custom errors
Recover(digest, signature) ==
    IF signature.kind = "malformed" THEN "revert"
    ELSE IF DigestSigned(signature) = digest THEN signature.key
    ELSE StrangerAddr

---------------------------------------------------------------------------
(* The ERC20 behind `token` (IERC20: transfer, balanceOf) *)

Holders == Accounts \cup {VaultAddr}

\* the two ways a token reports a transfer it cannot make: returning false
\* (the vault's require then reverts with "Transfer failed") or reverting itself
TransferErrors == {"Transfer failed", "ERC20InsufficientBalance"}

TokenCanTransfer(b, from, amount) == b[from] >= amount

\* how a transfer of amount out of `from` can fail in balances b
TransferFailures(b, from, amount) ==
    IF TokenCanTransfer(b, from, amount) THEN {"none"} ELSE TransferErrors

\* a transfer that credits `to` and takes nothing from `from`
TokenTransferNoDebit(b, from, to, amount) == [b EXCEPT ![to] = @ + amount]

TokenTransfer(b, from, to, amount) ==
    [b EXCEPT ![from] = @ - amount, ![to] = @ + amount]

---------------------------------------------------------------------------
(* TokenVault.withdrawTo, statement by statement *)

\* an exclusive deadline
DeadlineStrict(t, deadline) == t < deadline

\* no deadline check at all
DeadlineIgnored(t, deadline) == TRUE

\* require(block.timestamp <= deadline, "Signature expired")
DeadlineOk(t, deadline) == t <= deadline

\* a check that only rules out the zero address
\* a signer check that lets only the deployer's authorizations through
SignerEntitled(signer, recipient) == signer = recipient /\ signer = Deployer

SignerNonZero(signer, recipient) == signer # ZeroAddr

\* require(signer == recipient, "Invalid signer")
SignerOk(signer, recipient) == signer = recipient

\* a nonce that is not read from storage
StoredNonceZero(s, recipient) == 0

\* one nonce shared by every account
StoredNonceShared(s, recipient) == s.nonces[Deployer]

\* uint256 nonce = nonces[recipient]
StoredNonce(s, recipient) == s.nonces[recipient]

\* a nonce that is never advanced, and one advanced by two
NextNonceSame(n) == n
NextNonceSkip(n) == n + 2

\* nonces[recipient] += 1
NextNonce(n) == n + 1

\* a failure that leaves the partial state in place
RevertKeepsPartial(before, partial) == partial

\* a revert discards every state change the transaction made so far
Revert(before, partial) == before

\* an event that carries the nonce after the increment
EmitWithdrawNextNonce(evs, recipient, amount, nonce) ==
    Append(evs, [recipient |-> recipient, amount |-> amount, nonce |-> nonce + 1])

\* emit Withdraw(recipient, amount, nonce)
EmitWithdraw(evs, recipient, amount, nonce) ==
    Append(evs, [recipient |-> recipient, amount |-> amount, nonce |-> nonce])

\* The contract state a transaction works on.
ChainState == [nonces |-> nonces, owner |-> owner, bal |-> bal, now |-> now, events |-> events]

\* a withdrawTo that recovers and compares the signer before it looks at the
\* deadline
WithdrawExecRecoverFirst(s, recipient, amount, deadline, signature, tokenErr) ==
    LET nonce == StoredNonce(s, recipient)
        structHash == StructHash(recipient, amount, nonce, deadline)
        digest == HashTypedDataV4(structHash)
        signer == Recover(digest, signature)
    IN IF signer = "revert"
       THEN [state |-> s, result |-> "ECDSAInvalidSignature"]
       ELSE IF ~SignerOk(signer, recipient)
       THEN [state |-> s, result |-> "Invalid signer"]
       ELSE IF ~DeadlineOk(s.now, deadline)
       THEN [state |-> s, result |-> "Signature expired"]
       ELSE
         LET s1 == [s EXCEPT !.nonces[recipient] = NextNonce(@)]
         IN IF ~TokenCanTransfer(s1.bal, VaultAddr, amount)
            THEN [state |-> Revert(s, s1), result |-> tokenErr]
            ELSE
              LET s2 == [s1 EXCEPT !.bal = TokenTransfer(@, VaultAddr, recipient, amount)]
                  s3 == [s2 EXCEPT !.events = EmitWithdraw(@, recipient, amount, nonce)]
              IN [state |-> s3, result |-> "ok"]

\* withdrawTo run on state s: the resulting state and the outcome
\* ("ok" or the revert reason). tokenErr is how the token reports a failed transfer.
WithdrawExec(s, recipient, amount, deadline, signature, tokenErr) ==
    IF ~DeadlineOk(s.now, deadline)
    THEN [state |-> s, result |-> "Signature expired"]
    ELSE
      LET nonce == StoredNonce(s, recipient)
          structHash == StructHash(recipient, amount, nonce, deadline)
          digest == HashTypedDataV4(structHash)
          signer == Recover(digest, signature)
      IN IF signer = "revert"
         THEN [state |-> s, result |-> "ECDSAInvalidSignature"]
         ELSE IF ~SignerOk(signer, recipient)
         THEN [state |-> s, result |-> "Invalid signer"]
         ELSE
           LET s1 == [s EXCEPT !.nonces[recipient] = NextNonce(@)]
           IN IF ~TokenCanTransfer(s1.bal, VaultAddr, amount)
              THEN [state |-> Revert(s, s1), result |-> tokenErr]
              ELSE
                LET s2 == [s1 EXCEPT !.bal = TokenTransfer(@, VaultAddr, recipient, amount)]
                    s3 == [s2 EXCEPT !.events = EmitWithdraw(@, recipient, amount, nonce)]
                IN [state |-> s3, result |-> "ok"]

Call(recipient, amount, deadline, signature) ==
    [recipient |-> recipient, amount |-> amount, deadline |-> deadline,
     signature |-> signature]

\* the state a transaction leaves behind
Commit(s) ==
    /\ nonces' = s.nonces
    /\ owner' = s.owner
    /\ bal' = s.bal
    /\ events' = s.events
    /\ now' = s.now

\* a withdrawTo that hands the funds of a successful call on to its sender
WithdrawToPaysCaller(caller, recipient, amount, deadline, signature, tokenErr) ==
    /\ last = None
    /\ LET r == WithdrawExec(ChainState, recipient, amount, deadline, signature, tokenErr)
           c == Call(recipient, amount, deadline, signature)
           paid == IF r.result = "ok"
                   THEN [r.state EXCEPT !.bal = TokenTransfer(@, recipient, caller, amount)]
                   ELSE r.state
       IN /\ r.state.nonces[recipient] <= MaxNonce
          /\ Commit(paid)
          /\ redeemed' = IF r.result = "ok" THEN Append(redeemed, c) ELSE redeemed
          /\ last' = [op |-> "withdrawTo", caller |-> caller, call |-> c,
                      result |-> r.result, pre |-> ChainState,
                      replay |-> \E i \in DOMAIN redeemed : redeemed[i] = c]
    /\ UNCHANGED <<race, offchain>>

\* A withdrawTo transaction sent by `caller` is mined.
WithdrawTo(caller, recipient, amount, deadline, signature, tokenErr) ==
    /\ last = None
    /\ LET r == WithdrawExec(ChainState, recipient, amount, deadline, signature, tokenErr)
           c == Call(recipient, amount, deadline, signature)
       IN /\ r.state.nonces[recipient] <= MaxNonce
          /\ Commit(r.state)
          /\ redeemed' = IF r.result = "ok" THEN Append(redeemed, c) ELSE redeemed
          /\ last' = [op |-> "withdrawTo", caller |-> caller, call |-> c,
                      result |-> r.result, pre |-> ChainState,
                      replay |-> \E i \in DOMAIN redeemed : redeemed[i] = c]
    /\ UNCHANGED <<race, offchain>>

---------------------------------------------------------------------------
(* Owner operations and queries *)

\* a modifier that lets every caller through
OnlyOwnerAnyone(s, caller) == TRUE

\* modifier onlyOwner
OnlyOwner(s, caller) == caller = s.owner

\* transferOwnership(newOwner)
TransferOwnershipExec(s, caller, newOwner) ==
    IF ~OnlyOwner(s, caller) THEN [state |-> s, result |-> "Not authorized"]
    ELSE IF newOwner = ZeroAddr THEN [state |-> s, result |-> "Invalid new owner"]
    ELSE [state |-> [s EXCEPT !.owner = newOwner], result |-> "ok"]

TransferOwnership(caller, newOwner) ==
    /\ last = None
    /\ LET r == TransferOwnershipExec(ChainState, caller, newOwner)
       IN /\ Commit(r.state)
          /\ last' = [op |-> "transferOwnership", caller |-> caller, newOwner |-> newOwner,
                      result |-> r.result, pre |-> ChainState]
    /\ UNCHANGED <<redeemed, race, offchain>>

\* a transferToken that also advances the recipient's nonce
TransferTokenExecBumpsNonce(s, caller, recipient, amount, tokenErr) ==
    IF ~OnlyOwner(s, caller) THEN [state |-> s, result |-> "Not authorized"]
    ELSE IF ~TokenCanTransfer(s.bal, VaultAddr, amount) THEN [state |-> s, result |-> tokenErr]
    ELSE [state |-> [s EXCEPT !.bal = TokenTransfer(@, VaultAddr, recipient, amount),
                              !.nonces[recipient] = IF @ < MaxNonce THEN @ + 1 ELSE @],
          result |-> "ok"]

\* transferToken(recipient, amount)
TransferTokenExec(s, caller, recipient, amount, tokenErr) ==
    IF ~OnlyOwner(s, caller) THEN [state |-> s, result |-> "Not authorized"]
    ELSE IF ~TokenCanTransfer(s.bal, VaultAddr, amount) THEN [state |-> s, result |-> tokenErr]
    ELSE [state |-> [s EXCEPT !.bal = TokenTransfer(@, VaultAddr, recipient, amount)],
          result |-> "ok"]

TransferToken(caller, recipient, amount, tokenErr) ==
    /\ last = None
    /\ LET r == TransferTokenExec(ChainState, caller, recipient, amount, tokenErr)
       IN /\ Commit(r.state)
          /\ last' = [op |-> "transferToken", caller |-> caller, recipient |-> recipient,
                      amount |-> amount, result |-> r.result, pre |-> ChainState]
    /\ UNCHANGED <<redeemed, race, offchain>>

\* getBalance(): token.balanceOf(address(this))
GetBalanceValue(s) == s.bal[VaultAddr]

GetBalance(caller) ==
    /\ last = None
    /\ last' = [op |-> "getBalance", caller |-> caller, result |-> "ok",
                value |-> GetBalanceValue(ChainState), pre |-> ChainState]
    /\ UNCHANGED <<nonces, owner, bal, now, events, redeemed, race, offchain>>

\* nonces(account): the getter of the public mapping
NoncesValue(s, account) == s.nonces[account]

NoncesView(caller, account) ==
    /\ last = None
    /\ last' = [op |-> "nonces", caller |-> caller, account |-> account, result |-> "ok",
                value |-> NoncesValue(ChainState, account), pre |-> ChainState]
    /\ UNCHANGED <<nonces, owner, bal, now, events, redeemed, race, offchain>>

---------------------------------------------------------------------------
(* Environment *)

\* block.timestamp advances
Tick ==
    /\ last = None
    /\ now < MaxTime
    /\ now' = now + 1
    /\ UNCHANGED <<nonces, owner, bal, events, redeemed, last, race, offchain>>

\* the receipt is consumed; no operation reads `last`, so taking the next
\* transaction from a state without a receipt loses no behaviour
Return ==
    /\ last # None
    /\ last' = None
    /\ UNCHANGED <<nonces, owner, bal, now, events, redeemed, race, offchain>>

---------------------------------------------------------------------------
(* Specification *)

NoRace == [phase |-> "none"]

\* the client sessions, and a session with no request under way
Sessions == {1, 2}
Idle == [phase |-> "idle"]

\* const DOMAIN of the backend, as the source has it
BACKEND_DOMAIN ==
    [name |-> "WithdrawAuthorization", version |-> "1", chainId |-> 1,
     verifyingContract |-> "0x..."]

\* after the constructor: owner = msg.sender, every nonce 0, the vault funded
---------------------------------------------------------------------------
(* The Receiver contract and the ERC20 it holds. Amounts of that token are *)
(* counted in units of FIXED_AMOUNT (100 * 10**18 of the smallest unit).   *)

\* the tokens each account holds when the Receiver is deployed, in units
InitAccountTokens == 2

\* FIXED_AMOUNT, one unit
FIXED_AMOUNT == 1

ReceiverAddr == "receiver"

\* the holders of the Receiver's token
TokenHolders == Accounts \cup {ReceiverAddr}

\* constructor(_token) called by Deployer: owner = msg.sender; the token has
\* granted no allowance yet
ReceiverInit ==
    [owner |-> Deployer,
     bal |-> [h \in TokenHolders |-> IF h \in Accounts THEN InitAccountTokens ELSE 0],
     allowance |-> [h \in TokenHolders |-> [s \in TokenHolders |-> 0]],
     received |-> <<>>]

\* what the caller can see of a transferFrom that does not go through: the
\* require message when the token returns false, the token's own error when
\* it reverts
TransferFromErrors(message) ==
    {message, "ERC20InsufficientAllowance", "ERC20InsufficientBalance"}

\* IERC20.transferFrom(sender, recipient, amount) called by spender goes
\* through when sender has granted spender an allowance of at least amount
\* and holds at least amount
TransferFromOk(r, spender, sender, amount) ==
    /\ r.allowance[sender][spender] >= amount
    /\ r.bal[sender] >= amount

\* the outcomes of one transferFrom: none when it goes through, else the
\* require message or the error of the check that failed (the allowance is
\* checked first)
TransferFromFailures(r, spender, sender, amount, message) ==
    IF TransferFromOk(r, spender, sender, amount) THEN {"none"}
    ELSE {message,
          IF r.allowance[sender][spender] < amount
          THEN "ERC20InsufficientAllowance" ELSE "ERC20InsufficientBalance"}

\* the effect of a transferFrom that goes through
TransferFrom(r, spender, sender, recipient, amount) ==
    [r EXCEPT !.allowance[sender][spender] = @ - amount,
              !.bal = [h \in TokenHolders |->
                          r.bal[h] - (IF h = sender THEN amount ELSE 0)
                                   + (IF h = recipient THEN amount ELSE 0)]]

\* IERC20.approve(spender, amount) called by an account
Approve(holder, spender, amount) ==
    /\ last = None
    /\ receiver' = [receiver EXCEPT !.allowance[holder][spender] = amount]
    /\ last' = [op |-> "approve", caller |-> holder, spender |-> spender,
                amount |-> amount, result |-> "ok", pre |-> receiver]
    /\ UNCHANGED <<nonces, owner, bal, now, events, redeemed, race, sessions,
                   backendDomain, lastRead, reported>>

\* Receiver.deposit() called by caller
ReceiverDeposit(caller, tokenErr) ==
    /\ last = None
    /\ tokenErr \in TransferFromFailures(receiver, ReceiverAddr, caller, FIXED_AMOUNT,
                                        "Token transfer failed")
    /\ IF TransferFromOk(receiver, ReceiverAddr, caller, FIXED_AMOUNT)
       THEN /\ receiver' =
                  [TransferFrom(receiver, ReceiverAddr, caller, ReceiverAddr, FIXED_AMOUNT)
                      EXCEPT !.received = Append(@, [from |-> caller,
                                                     amount |-> FIXED_AMOUNT])]
            /\ last' = [op |-> "deposit", caller |-> caller, result |-> "ok",
                        pre |-> receiver]
       ELSE /\ receiver' = receiver
            /\ last' = [op |-> "deposit", caller |-> caller, result |-> tokenErr,
                        pre |-> receiver]
    /\ UNCHANGED <<nonces, owner, bal, now, events, redeemed, race, sessions,
                   backendDomain, lastRead, reported>>

\* Receiver.withdraw() called by caller
ReceiverWithdraw(caller, tokenErr) ==
    /\ last = None
    /\ tokenErr \in TransferFromFailures(receiver, ReceiverAddr, ReceiverAddr,
                                        receiver.bal[ReceiverAddr], "Withdraw failed")
    /\ LET balance == receiver.bal[ReceiverAddr]
       IN IF caller # receiver.owner
          THEN /\ receiver' = receiver
               /\ last' = [op |-> "withdraw", caller |-> caller,
                           result |-> "Not authorized", pre |-> receiver]
          ELSE IF TransferFromOk(receiver, ReceiverAddr, ReceiverAddr, balance)
          THEN /\ receiver' = TransferFrom(receiver, ReceiverAddr, ReceiverAddr,
                                           receiver.owner, balance)
               /\ last' = [op |-> "withdraw", caller |-> caller, result |-> "ok",
                           pre |-> receiver]
          ELSE /\ receiver' = receiver
               /\ last' = [op |-> "withdraw", caller |-> caller, result |-> tokenErr,
                           pre |-> receiver]
    /\ UNCHANGED <<nonces, owner, bal, now, events, redeemed, race, sessions,
                   backendDomain, lastRead, reported>>

Init ==
    /\ nonces = [a \in Accounts |-> 0]
    /\ owner = Deployer
    /\ bal = [h \in Holders |-> IF h = VaultAddr THEN InitVaultBalance ELSE 0]
    /\ now = 0
    /\ events = <<>>
    /\ redeemed = <<>>
    /\ last = None
    /\ race = NoRace
    /\ sessions = [s \in Sessions |-> Idle]
    /\ backendDomain = BACKEND_DOMAIN
    /\ lastRead = None
    /\ reported = {}
    /\ receiver = ReceiverInit

Next ==
    \/ \E caller \in Accounts, recipient \in Accounts, amount \in Amounts,
          deadline \in Deadlines :
        \E signature \in Signatures(recipient, amount, nonces[recipient], deadline),
           tokenErr \in TransferFailures(bal, VaultAddr, amount) :
            WithdrawTo(caller, recipient, amount, deadline, signature, tokenErr)
    \/ \E caller \in Accounts, newOwner \in Accounts \cup {ZeroAddr} :
            TransferOwnership(caller, newOwner)
    \/ \E caller \in Accounts, recipient \in Accounts, amount \in Amounts :
        \E tokenErr \in TransferFailures(bal, VaultAddr, amount) :
            TransferToken(caller, recipient, amount, tokenErr)
    \/ \E caller \in Accounts : GetBalance(caller)
    \/ \E caller \in Accounts, account \in Accounts : NoncesView(caller, account)
    \/ Tick
    \/ Return

Spec == Init /\ [][Next]_vars

---------------------------------------------------------------------------
(* Two redemptions submitted together.  Transactions of one block are      *)
(* executed one after the other, in an order the submitters do not choose: *)
(* a pair of pending withdrawTo transactions for one account, both signed  *)
(* against the nonce stored at submission, is mined in either order, with  *)
(* the clock free to advance in between.                                   *)

\* the signature recipient makes for a withdrawal at nonce n
OwnSignature(recipient, amount, n, deadline) ==
    SignTyped(recipient, VaultDomain,
              [recipient |-> recipient, amount |-> amount, nonce |-> n,
               deadline |-> deadline])

SubmitPair(recipient, amount1, deadline1, amount2, deadline2) ==
    /\ last = None
    /\ race = NoRace
    /\ nonces[recipient] < MaxNonce
    /\ LET n == nonces[recipient]
       IN race' = [phase |-> "pending", recipient |-> recipient, nonce |-> n,
                   txs |-> <<Call(recipient, amount1, deadline1,
                                  OwnSignature(recipient, amount1, n, deadline1)),
                             Call(recipient, amount2, deadline2,
                                  OwnSignature(recipient, amount2, n, deadline2))>>,
                   results |-> <<"pending", "pending">>,
                   at |-> ChainState,
                   pre |-> <<ChainState, ChainState>>]
    /\ UNCHANGED <<nonces, owner, bal, now, events, redeemed, last, offchain>>

\* one of the two pending transactions is mined
MineRaced(i, tokenErr) ==
    /\ race.phase = "pending"
    /\ race.results[i] = "pending"
    /\ tokenErr \in TransferFailures(bal, VaultAddr, race.txs[i].amount)
    /\ LET c == race.txs[i]
           r == WithdrawExec(ChainState, c.recipient, c.amount, c.deadline,
                             c.signature, tokenErr)
       IN /\ Commit(r.state)
          /\ redeemed' = IF r.result = "ok" THEN Append(redeemed, c) ELSE redeemed
          /\ race' = [race EXCEPT !.results[i] = r.result, !.pre[i] = ChainState]
    /\ UNCHANGED <<last, offchain>>

RaceDone ==
    /\ race.phase = "pending"
    /\ race.results[1] # "pending"
    /\ race.results[2] # "pending"

\* both receipts are in; the next pair may be submitted
RetireRace ==
    /\ RaceDone
    /\ race' = NoRace
    /\ UNCHANGED <<nonces, owner, bal, now, events, redeemed, last, offchain>>

NextRace ==
    \/ \E recipient \in Accounts, amount1 \in Amounts, deadline1 \in Deadlines,
          amount2 \in Amounts, deadline2 \in Deadlines :
            SubmitPair(recipient, amount1, deadline1, amount2, deadline2)
    \/ \E i \in {1, 2}, tokenErr \in TransferErrors \cup {"none"} :
            MineRaced(i, tokenErr)
    \/ RetireRace
    \/ Tick

SpecRace == Init /\ [][NextRace]_vars

---------------------------------------------------------------------------
(* Two redemptions for different accounts submitted together: each signed   *)
(* by its own recipient against that recipient's stored nonce, mined in     *)
(* either order, with the clock free to advance in between.                 *)

SubmitParallel(a, amountA, deadlineA, b, amountB, deadlineB) ==
    /\ last = None
    /\ race = NoRace
    /\ a # b
    /\ nonces[a] < MaxNonce
    /\ nonces[b] < MaxNonce
    /\ race' = [phase |-> "parallel",
                txs |-> <<Call(a, amountA, deadlineA,
                               OwnSignature(a, amountA, nonces[a], deadlineA)),
                          Call(b, amountB, deadlineB,
                               OwnSignature(b, amountB, nonces[b], deadlineB))>>,
                results |-> <<"pending", "pending">>,
                order |-> <<>>,
                at |-> ChainState,
                pre |-> <<ChainState, ChainState>>]
    /\ UNCHANGED <<nonces, owner, bal, now, events, redeemed, last, offchain>>

\* one of the two pending transactions is mined
MineParallel(i, tokenErr) ==
    /\ race.phase = "parallel"
    /\ race.results[i] = "pending"
    /\ tokenErr \in TransferFailures(bal, VaultAddr, race.txs[i].amount)
    /\ LET c == race.txs[i]
           r == WithdrawExec(ChainState, c.recipient, c.amount, c.deadline,
                             c.signature, tokenErr)
       IN /\ Commit(r.state)
          /\ redeemed' = IF r.result = "ok" THEN Append(redeemed, c) ELSE redeemed
          /\ race' = [race EXCEPT !.results[i] = r.result, !.pre[i] = ChainState,
                                  !.order = Append(@, i)]
    /\ UNCHANGED <<last, offchain>>

ParallelDone ==
    /\ race.phase = "parallel"
    /\ Len(race.order) = 2

RetireParallel ==
    /\ ParallelDone
    /\ race' = NoRace
    /\ UNCHANGED <<nonces, owner, bal, now, events, redeemed, last, offchain>>

NextParallel ==
    \/ \E a \in Accounts, amountA \in Amounts, deadlineA \in Deadlines,
          b \in Accounts, amountB \in Amounts, deadlineB \in Deadlines :
            SubmitParallel(a, amountA, deadlineA, b, amountB, deadlineB)
    \/ \E i \in {1, 2}, tokenErr \in TransferErrors \cup {"none"} :
            MineParallel(i, tokenErr)
    \/ RetireParallel
    \/ Tick

SpecParallel == Init /\ [][NextParallel]_vars

---------------------------------------------------------------------------
(* The backend (TokenVaultBackend) and its clients.  Every await of the     *)
(* backend is a point where other requests and transactions interleave, so  *)
(* each method is one action per stretch of code between two awaits.        *)

\* the fields of Withdraw with nonce and deadline the other way round
TypesSwapped ==
    <<[name |-> "recipient", type |-> "address"],
      [name |-> "amount", type |-> "uint256"],
      [name |-> "deadline", type |-> "uint256"],
      [name |-> "nonce", type |-> "uint256"]>>

\* const TYPES: the fields of Withdraw, in order
TYPES ==
    <<[name |-> "recipient", type |-> "address"],
      [name |-> "amount", type |-> "uint256"],
      [name |-> "nonce", type |-> "uint256"],
      [name |-> "deadline", type |-> "uint256"]>>

\* the values DOMAIN has in a deployment: as the source has it, and with the
\* placeholder replaced by the address of the vault
DeployedDomains ==
    {BACKEND_DOMAIN, [BACKEND_DOMAIN EXCEPT !.verifyingContract = VaultAddr]}

\* readings of Date.now(), in milliseconds
ClockReadings == {999, 1000}

\* deadlineMinutes = 30 when the argument is left out
DefaultMinutes == 30

\* the deadlineMinutes argument: left out, or a number of minutes
NoWindow == [given |-> FALSE]
Windows == {NoWindow, [given |-> TRUE, minutes |-> 1]}

DeadlineMinutes(window) ==
    IF window.given THEN window.minutes ELSE DefaultMinutes

\* getNonce: (await contract.nonces(userAddress)).toNumber(); toNumber leaves
\* a value below 2^53 as it is, and no nonce of the model comes near that
GetNonceValue(s, userAddress) == s.nonces[userAddress]

\* a deadline rounded up to the next second
IssueDeadlineCeil(ms, window) ==
    ((ms + 999) \div 1000) + (DeadlineMinutes(window) * 60)

\* Math.floor(Date.now() / 1000) + (deadlineMinutes * 60)
IssueDeadline(ms, window) ==
    (ms \div 1000) + (DeadlineMinutes(window) * 60)

\* the object createWithdrawalRequest returns
WithdrawalRequest(domain, recipient, amount, nonce, deadline) ==
    [domain |-> domain, types |-> TYPES,
     data |-> [recipient |-> recipient, amount |-> amount, nonce |-> nonce,
               deadline |-> deadline]]

\* the sessions whose createWithdrawalRequest is between its await and its return
InFlight == {s \in Sessions : sessions[s].phase = "read"}

\* createWithdrawalRequest up to the end of `await this.getNonce(recipient)`;
\* a read that fails makes the call throw
CreateRequestRead(sid, recipient, amount, window, rpcOk) ==
    /\ last = None
    /\ sessions[sid] = Idle
    /\ IF rpcOk
       THEN /\ sessions' = [sessions EXCEPT ![sid] =
                    [phase |-> "read", recipient |-> recipient, amount |-> amount,
                     window |-> window,
                     nonce |-> GetNonceValue(ChainState, recipient),
                     seen |-> nonces[recipient], since |-> Len(redeemed),
                     overlaps |-> InFlight]]
            /\ last' = last
       ELSE /\ sessions' = sessions
            /\ last' = [op |-> "createWithdrawalRequest", session |-> sid,
                        result |-> "nonce read failed", pre |-> ChainState]
    /\ UNCHANGED <<nonces, owner, bal, now, events, redeemed, race, backendDomain, receiver,
                   lastRead, reported>>

\* createWithdrawalRequest from the await to its return, with Date.now() = ms
CreateRequestReturn(sid, ms) ==
    /\ last = None
    /\ sessions[sid].phase = "read"
    /\ LET c == sessions[sid]
           request == WithdrawalRequest(backendDomain, c.recipient, c.amount, c.nonce,
                                        IssueDeadline(ms, c.window))
       IN /\ sessions' = [sessions EXCEPT ![sid] =
                  [phase |-> "issued", request |-> request, since |-> c.since,
                   overlaps |-> c.overlaps]]
          /\ last' = [op |-> "createWithdrawalRequest", session |-> sid, result |-> "ok",
                      recipient |-> c.recipient, amount |-> c.amount,
                      window |-> c.window, ms |-> ms, seen |-> c.seen,
                      request |-> request, pre |-> ChainState]
    /\ UNCHANGED <<nonces, owner, bal, now, events, redeemed, race, backendDomain, receiver,
                   lastRead, reported>>

\* the client drops what it holds and starts over
Abandon(sid) ==
    /\ last = None
    /\ sessions[sid].phase = "issued"
    /\ sessions' = [s \in Sessions |->
            IF s = sid THEN Idle
            ELSE IF sessions[s].phase \in {"read", "issued"}
                 THEN [sessions[s] EXCEPT !.overlaps = @ \ {sid}]
                 ELSE sessions[s]]
    /\ UNCHANGED <<nonces, owner, bal, now, events, redeemed, last, race, backendDomain, receiver,
                   lastRead, reported>>

\* completeWithdrawal: an account submits its own authorization, signed
\* against the nonce the vault stores and good until the current block,
\* straight to the vault
DirectWithdraw(recipient, amount, tokenErr) ==
    WithdrawTo(recipient, recipient, amount, now,
               OwnSignature(recipient, amount, nonces[recipient], now), tokenErr)

\* the backend is deployed with one of the values of DOMAIN
InitBackend ==
    /\ nonces = [a \in Accounts |-> 0]
    /\ owner = Deployer
    /\ bal = [h \in Holders |-> IF h = VaultAddr THEN InitVaultBalance ELSE 0]
    /\ now = 0
    /\ events = <<>>
    /\ redeemed = <<>>
    /\ last = None
    /\ race = NoRace
    /\ sessions = [s \in Sessions |-> Idle]
    /\ backendDomain \in DeployedDomains
    /\ lastRead = None
    /\ reported = {}
    /\ receiver = ReceiverInit

\* requests for authorizations, served concurrently, while accounts redeem
NextIssue ==
    \/ \E sid \in Sessions, recipient \in Accounts, amount \in Amounts,
          window \in Windows, rpcOk \in BOOLEAN :
            CreateRequestRead(sid, recipient, amount, window, rpcOk)
    \/ \E sid \in Sessions, ms \in ClockReadings : CreateRequestReturn(sid, ms)
    \/ \E sid \in Sessions : Abandon(sid)
    \/ \E recipient \in Accounts, amount \in Amounts :
        \E tokenErr \in TransferFailures(bal, VaultAddr, amount) :
            DirectWithdraw(recipient, amount, tokenErr)
    \/ Return

SpecIssue == InitBackend /\ [][NextIssue]_vars

---------------------------------------------------------------------------
(* The issue, sign, process flow of one client (completeWithdrawalFlow) *)

\* the type string of the vault's WITHDRAW_TYPEHASH
WithdrawTypeString ==
    "Withdraw(address recipient,uint256 amount,uint256 nonce,uint256 deadline)"

\* the members that type string lists, in its order
WithdrawTypeMembers ==
    <<[name |-> "recipient", type |-> "address"],
      [name |-> "amount", type |-> "uint256"],
      [name |-> "nonce", type |-> "uint256"],
      [name |-> "deadline", type |-> "uint256"]>>

\* EIP-712 encodeType: "Withdraw(" type name "," ... ")". Strings are atoms
\* here, so the one string the vault uses is told apart from every other
EncodeType(types) ==
    IF types = WithdrawTypeMembers THEN WithdrawTypeString ELSE "Withdraw(other members)"

\* EIP-712 encodeData as ethers computes it from (types, data): the type hash,
\* then the value of each member in the order of types
EncodeData(types, data) ==
    <<Keccak(EncodeType(types))>> \o [i \in 1..Len(types) |-> data[types[i].name]]

\* abi.encode(WITHDRAW_TYPEHASH, recipient, amount, nonce, deadline) in withdrawTo
VaultEncode(recipient, amount, nonce, deadline) ==
    <<WITHDRAW_TYPEHASH, recipient, amount, nonce, deadline>>

\* no message was built
NoMessage == <<>>

\* signWithdrawalRequest(withdrawalRequest) with `wallet` connected:
\* signer._signTypedData(domain, types, data)
SignRequest(sid, wallet) ==
    /\ last = None
    /\ sessions[sid].phase = "issued"
    /\ LET q == sessions[sid].request
       IN sessions' = [sessions EXCEPT ![sid] =
              [phase |-> "signed", via |-> "issued",
               recipient |-> q.data.recipient, amount |-> q.data.amount,
               deadline |-> q.data.deadline,
               signature |-> SignTyped(wallet, q.domain, q.data),
               signed |-> EncodeData(q.types, q.data),
               since |-> sessions[sid].since]]
    /\ UNCHANGED <<nonces, owner, bal, now, events, redeemed, last, race, backendDomain, receiver,
                   lastRead, reported>>

\* a client that asks the backend for nothing: it reads the nonce itself,
\* picks a deadline and signs with the connected wallet
SignOwnRequest(sid, wallet, recipient, amount, deadline) ==
    /\ last = None
    /\ sessions[sid] = Idle
    /\ LET data == [recipient |-> recipient, amount |-> amount,
                    nonce |-> nonces[recipient], deadline |-> deadline]
       IN sessions' = [sessions EXCEPT ![sid] =
              [phase |-> "signed", via |-> "own",
               recipient |-> recipient, amount |-> amount, deadline |-> deadline,
               signature |-> SignTyped(wallet, backendDomain, data),
               signed |-> EncodeData(TYPES, data),
               since |-> Len(redeemed)]]
    /\ UNCHANGED <<nonces, owner, bal, now, events, redeemed, last, race, backendDomain, receiver,
                   lastRead, reported>>

\* the data object verifySignature rebuilds
VerifyData(s, recipient, amount, deadline) ==
    [recipient |-> recipient, amount |-> amount,
     nonce |-> GetNonceValue(s, recipient), deadline |-> deadline]

\* a verifySignature that also turns down a deadline that has passed
VerifySignatureChecksDeadline(s, domain, recipient, amount, deadline, signature, rpcOk) ==
    /\ rpcOk
    /\ s.now <= deadline
    /\ Recover(TypedDataHash(domain, StructHash(recipient, amount,
                                                GetNonceValue(s, recipient), deadline)),
               signature) = recipient

\* verifySignature(recipient, amount, deadline, signature): false when the
\* nonce read or verifyTypedData throws, else whether the recovered address
\* is recipient (both lower-cased; addresses here have one spelling)
VerifySignature(s, domain, recipient, amount, deadline, signature, rpcOk) ==
    IF ~rpcOk THEN FALSE
    ELSE LET data == VerifyData(s, recipient, amount, deadline)
             recoveredAddress ==
                 Recover(TypedDataHash(domain,
                                       StructHash(data.recipient, data.amount,
                                                  data.nonce, data.deadline)),
                         signature)
         IN recoveredAddress # "revert" /\ recoveredAddress = recipient

\* what was wrong with the authorization a session holds, judged on the chain
\* state s it is processed in
Defects(s, c) ==
    { d \in {"expired", "wrong signer", "stale nonce"} :
        \/ d = "expired" /\ s.now > c.deadline
        \/ d = "wrong signer" /\ c.signature.key # c.recipient
        \/ d = "stale nonce" /\ c.signature.message.nonce < s.nonces[c.recipient] }

\* the error a failed processWithdrawal reports, filed under the one thing
\* that was wrong with the authorization (nothing is filed when several
\* things or none were)
Report(s, c, error) ==
    IF Cardinality(Defects(s, c)) = 1
    THEN reported \cup {[cause |-> d, error |-> error] : d \in Defects(s, c)}
    ELSE reported

\* the error of the receipt just written goes into the history, unless the
\* failure was the backend's own nonce read
FileReport ==
    reported' =
        IF last'.op = "processWithdrawal" /\ last'.result # "ok"
                /\ last'.relayed # NoMessage
        THEN Report(last'.pre, last'.call, last'.result)
        ELSE reported

\* a redemption for recipient succeeded since the session's flow began
Interfered(c) ==
    \E i \in (c.since + 1)..Len(redeemed) : redeemed[i].recipient = c.recipient

\* processWithdrawal up to `if (!isValid) throw new Error('Invalid signature')`;
\* the history `reported` is written by the action that files the error
VerifyStep(sid, rpcOk) ==
    /\ last = None
    /\ sessions[sid].phase = "signed"
    /\ LET c == sessions[sid]
           isValid == VerifySignature(ChainState, backendDomain, c.recipient, c.amount,
                                      c.deadline, c.signature, rpcOk)
           relayed == IF rpcOk
                      THEN EncodeData(TYPES, VerifyData(ChainState, c.recipient,
                                                        c.amount, c.deadline))
                      ELSE NoMessage
       IN IF isValid
          THEN /\ sessions' = [sessions EXCEPT ![sid] =
                       [c EXCEPT !.phase = "verified"] @@ [relayed |-> relayed]]
               /\ last' = last
          ELSE /\ sessions' = [sessions EXCEPT ![sid] = Idle]
               /\ last' = [op |-> "processWithdrawal", session |-> sid, via |-> c.via,
                           call |-> Call(c.recipient, c.amount, c.deadline, c.signature),
                           verified |-> FALSE, submitted |-> FALSE,
                           result |-> "Invalid signature", pre |-> ChainState,
                           signed |-> c.signed, relayed |-> relayed,
                           rebuilt |-> NoMessage, interfered |-> Interfered(c)]
    /\ UNCHANGED <<nonces, owner, bal, now, events, redeemed, race, backendDomain, receiver,
                   lastRead>>

\* processWithdrawal from contract.withdrawTo(...) on: the transaction is
\* mined, and a revert is thrown on to the caller with the vault's reason
SubmitStep(sid, tokenErr) ==
    /\ last = None
    /\ sessions[sid].phase = "verified"
    /\ tokenErr \in TransferFailures(bal, VaultAddr, sessions[sid].amount)
    /\ LET c == sessions[sid]
           k == Call(c.recipient, c.amount, c.deadline, c.signature)
           r == WithdrawExec(ChainState, c.recipient, c.amount, c.deadline,
                             c.signature, tokenErr)
           rebuilt == IF DeadlineOk(now, c.deadline)
                      THEN VaultEncode(c.recipient, c.amount,
                                       StoredNonce(ChainState, c.recipient), c.deadline)
                      ELSE NoMessage
       IN /\ r.state.nonces[c.recipient] <= MaxNonce
          /\ Commit(r.state)
          /\ redeemed' = IF r.result = "ok" THEN Append(redeemed, k) ELSE redeemed
          /\ sessions' = [sessions EXCEPT ![sid] = Idle]
          /\ last' = [op |-> "processWithdrawal", session |-> sid, via |-> c.via,
                      call |-> k, verified |-> TRUE, submitted |-> TRUE,
                      result |-> r.result, pre |-> ChainState,
                      signed |-> c.signed, relayed |-> c.relayed,
                      rebuilt |-> rebuilt, interfered |-> Interfered(c)]
    /\ UNCHANGED <<race, backendDomain, receiver, lastRead>>

\* a processWithdrawal that goes on to the contract call whatever
\* verifySignature returned
ProcessVerifyUnchecked(sid, rpcOk) ==
    /\ last = None
    /\ sessions[sid].phase = "signed"
    /\ sessions' = [sessions EXCEPT ![sid] =
            [sessions[sid] EXCEPT !.phase = "verified"] @@ [relayed |-> NoMessage]]
    /\ UNCHANGED <<nonces, owner, bal, now, events, redeemed, last, race, backendDomain, receiver,
                   lastRead, reported>>

ProcessVerify(sid, rpcOk) == VerifyStep(sid, rpcOk) /\ UNCHANGED reported

ProcessSubmit(sid, tokenErr) == SubmitStep(sid, tokenErr) /\ UNCHANGED reported

\* one client going through the flow while accounts redeem and time passes
NextFlow ==
    \/ \E recipient \in Accounts, amount \in Amounts, rpcOk \in BOOLEAN :
            CreateRequestRead(1, recipient, amount, NoWindow, rpcOk)
    \/ \E ms \in ClockReadings : CreateRequestReturn(1, ms)
    \/ \E wallet \in Accounts : SignRequest(1, wallet)
    \/ \E wallet \in Accounts, recipient \in Accounts, amount \in Amounts,
          deadline \in Deadlines :
            SignOwnRequest(1, wallet, recipient, amount, deadline)
    \/ \E rpcOk \in BOOLEAN : ProcessVerify(1, rpcOk)
    \/ \E tokenErr \in TransferErrors \cup {"none"} : ProcessSubmit(1, tokenErr)
    \/ Abandon(1)
    \/ \E recipient \in Accounts, amount \in Amounts :
        \E tokenErr \in TransferFailures(bal, VaultAddr, amount) :
            DirectWithdraw(recipient, amount, tokenErr)
    \/ Tick
    \/ Return

SpecFlow == InitBackend /\ [][NextFlow]_vars

\* a client submitting authorizations of its own making to the backend, the
\* errors it is given being kept
NextReport ==
    \/ \E wallet \in Accounts, recipient \in Accounts, amount \in Amounts,
          deadline \in Deadlines :
            SignOwnRequest(1, wallet, recipient, amount, deadline)
    \/ \E rpcOk \in BOOLEAN : VerifyStep(1, rpcOk) /\ FileReport
    \/ \E tokenErr \in TransferErrors \cup {"none"} : SubmitStep(1, tokenErr) /\ FileReport
    \/ \E recipient \in Accounts, amount \in Amounts :
        \E tokenErr \in TransferFailures(bal, VaultAddr, amount) :
            DirectWithdraw(recipient, amount, tokenErr)
    \/ Tick
    \/ Return

SpecReport == InitBackend /\ [][NextReport]_vars

---------------------------------------------------------------------------
(* The browser flow (withdrawWithBackend) against the backend's endpoints *)

\* the value of a JavaScript expression that read nothing
Undefined == [defined |-> FALSE]

Defined(v) == [defined |-> TRUE, value |-> v]

\* obj.name: undefined when obj has no such property
Get(obj, name) == IF name \in DOMAIN obj THEN Defined(obj[name]) ELSE Undefined

\* JSON.stringify of an object literal, then express.json(): the properties
\* whose value is undefined are left out
Stringify(o) == [n \in {k \in DOMAIN o : o[k].defined} |-> o[n].value]

\* res.json({ success: true, data: withdrawalRequest }) of /api/withdrawal/request
RequestResponse(withdrawalRequest) == [success |-> TRUE, data |-> withdrawalRequest]

\* !recipient || !amount || !deadline || !signature of /api/withdrawal/process:
\* a property that is missing is falsy, and so is the number 0
MissingParameters(body) ==
    \/ \E n \in {"recipient", "amount", "deadline", "signature"} : n \notin DOMAIN body
    \/ body.deadline = 0

\* withdrawWithBackend from the response of /api/withdrawal/request to the
\* POST of /api/withdrawal/process, with `wallet` connected; recipient and
\* amount are the arguments the request was made with
BrowserSignAndPost(sid, wallet) ==
    /\ last = None
    /\ sessions[sid].phase = "issued"
    /\ LET requestData == RequestResponse(sessions[sid].request)
           withdrawalData == requestData.data
           signature == SignTyped(wallet, withdrawalData.domain, withdrawalData.data)
           body == Stringify([recipient |-> Defined(withdrawalData.data.recipient),
                              amount |-> Defined(withdrawalData.data.amount),
                              deadline |-> Get(requestData.data, "deadline"),
                              signature |-> Defined(signature)])
       IN sessions' = [sessions EXCEPT ![sid] =
              [phase |-> "posted", wallet |-> wallet, body |-> body,
               recipient |-> withdrawalData.data.recipient,
               amount |-> withdrawalData.data.amount,
               message |-> withdrawalData.data,
               signed |-> EncodeData(withdrawalData.types, withdrawalData.data),
               since |-> sessions[sid].since]]
    /\ UNCHANGED <<nonces, owner, bal, now, events, redeemed, last, race, backendDomain, receiver,
                   lastRead, reported>>

\* the handler of /api/withdrawal/process up to its call of processWithdrawal,
\* and what withdrawWithBackend makes of a response that is not ok
ProcessEndpoint(sid) ==
    /\ last = None
    /\ sessions[sid].phase = "posted"
    /\ LET c == sessions[sid]
       IN IF MissingParameters(c.body)
          THEN /\ sessions' = [sessions EXCEPT ![sid] = Idle]
               /\ last' = [op |-> "withdrawWithBackend", session |-> sid,
                           wallet |-> c.wallet, recipient |-> c.recipient,
                           amount |-> c.amount, message |-> c.message, body |-> c.body,
                           status |-> 400, error |-> "Missing required parameters",
                           result |-> "Failed to process withdrawal on backend",
                           interfered |-> Interfered(c), pre |-> ChainState]
          ELSE /\ sessions' = [sessions EXCEPT ![sid] =
                       [phase |-> "signed", via |-> "browser",
                        recipient |-> c.body.recipient, amount |-> c.body.amount,
                        deadline |-> c.body.deadline, signature |-> c.body.signature,
                        signed |-> c.signed, since |-> c.since]]
               /\ last' = last
    /\ UNCHANGED <<nonces, owner, bal, now, events, redeemed, race, backendDomain, receiver,
                   lastRead, reported>>

\* clients of the backend, in the browser (withdrawWithBackend) and in Node
\* (completeWithdrawalFlow), while accounts redeem and time passes
NextBrowser ==
    \/ \E recipient \in Accounts, amount \in Amounts, rpcOk \in BOOLEAN :
            CreateRequestRead(1, recipient, amount, NoWindow, rpcOk)
    \/ \E ms \in ClockReadings : CreateRequestReturn(1, ms)
    \/ \E wallet \in Accounts : BrowserSignAndPost(1, wallet)
    \/ ProcessEndpoint(1)
    \/ \E wallet \in Accounts : SignRequest(1, wallet)
    \/ \E rpcOk \in BOOLEAN : ProcessVerify(1, rpcOk)
    \/ \E tokenErr \in TransferErrors \cup {"none"} : ProcessSubmit(1, tokenErr)
    \/ \E recipient \in Accounts, amount \in Amounts :
        \E tokenErr \in TransferFailures(bal, VaultAddr, amount) :
            DirectWithdraw(recipient, amount, tokenErr)
    \/ Tick
    \/ Return

SpecBrowser == InitBackend /\ [][NextBrowser]_vars

\* withdrawTo(recipient, amount, deadline, signature) sent by caller with the
\* authorization signer made for (signedAmount, signedDeadline) at its stored
\* nonce: the parameters of the call need not be the signed ones
SubmitAuthorization(caller, signer, signedAmount, signedDeadline, recipient, amount, deadline, tokenErr) ==
    WithdrawTo(caller, recipient, amount, deadline,
               OwnSignature(signer, signedAmount, nonces[signer], signedDeadline),
               tokenErr)

\* genuine authorizations submitted with parameters of the sender's choosing
NextTamper ==
    \/ \E caller \in Accounts, signer \in Accounts, signedAmount \in Amounts,
          signedDeadline \in Deadlines, recipient \in Accounts, amount \in Amounts,
          deadline \in Deadlines :
        \E tokenErr \in TransferFailures(bal, VaultAddr, amount) :
            SubmitAuthorization(caller, signer, signedAmount, signedDeadline,
                                recipient, amount, deadline, tokenErr)
    \/ Tick
    \/ Return

SpecTamper == Init /\ [][NextTamper]_vars

\* the vault's two paying operations, transferToken with any holder of the
\* token as recipient, the vault itself included
NextFunds ==
    \/ \E caller \in Accounts, recipient \in Accounts, amount \in Amounts,
          deadline \in Deadlines :
        \E signature \in Signatures(recipient, amount, nonces[recipient], deadline),
           tokenErr \in TransferFailures(bal, VaultAddr, amount) :
            WithdrawTo(caller, recipient, amount, deadline, signature, tokenErr)
    \/ \E caller \in Accounts, recipient \in Holders, amount \in Amounts :
        \E tokenErr \in TransferFailures(bal, VaultAddr, amount) :
            TransferToken(caller, recipient, amount, tokenErr)
    \/ \E caller \in Accounts, newOwner \in Accounts \cup {ZeroAddr} :
            TransferOwnership(caller, newOwner)
    \/ Tick
    \/ Return

SpecFunds == Init /\ [][NextFunds]_vars

\* processWithdrawal is called with bytes that are no signature
PostMalformed(sid, recipient, amount, deadline) ==
    /\ last = None
    /\ sessions[sid] = Idle
    /\ sessions' = [sessions EXCEPT ![sid] =
            [phase |-> "signed", via |-> "raw",
             recipient |-> recipient, amount |-> amount, deadline |-> deadline,
             signature |-> Malformed, signed |-> NoMessage,
             since |-> Len(redeemed)]]
    /\ UNCHANGED <<nonces, owner, bal, now, events, redeemed, last, race, backendDomain, receiver,
                   lastRead, reported>>

\* processWithdrawal called with authorizations the client made itself and
\* with malformed signatures, while accounts redeem and time passes
NextVerify ==
    \/ \E wallet \in Accounts, recipient \in Accounts, amount \in Amounts,
          deadline \in Deadlines :
            SignOwnRequest(1, wallet, recipient, amount, deadline)
    \/ \E recipient \in Accounts, amount \in Amounts, deadline \in Deadlines :
            PostMalformed(1, recipient, amount, deadline)
    \/ \E rpcOk \in BOOLEAN : ProcessVerify(1, rpcOk)
    \/ \E tokenErr \in TransferErrors \cup {"none"} : ProcessSubmit(1, tokenErr)
    \/ \E recipient \in Accounts, amount \in Amounts :
        \E tokenErr \in TransferFailures(bal, VaultAddr, amount) :
            DirectWithdraw(recipient, amount, tokenErr)
    \/ Tick
    \/ Return

SpecVerify == InitBackend /\ [][NextVerify]_vars

\* accounts approving, depositing into the Receiver and calling withdraw
NextReceiver ==
    \/ \E holder \in Accounts, spender \in TokenHolders, amount \in 0..InitAccountTokens :
            Approve(holder, spender, amount)
    \/ \E caller \in Accounts,
          tokenErr \in TransferFromErrors("Token transfer failed") \cup {"none"} :
            ReceiverDeposit(caller, tokenErr)
    \/ \E caller \in Accounts,
          tokenErr \in TransferFromErrors("Withdraw failed") \cup {"none"} :
            ReceiverWithdraw(caller, tokenErr)
    \/ Return

SpecReceiver == Init /\ [][NextReceiver]_vars

---------------------------------------------------------------------------
(* The read-only queries: the vault's nonces(account) and getBalance(), and *)
(* the backend's getNonce and getContractBalance, which call them.          *)

RECURSIVE ToDecimalString(_)
\* BigNumber.toString(): the decimal digits, most significant first
ToDecimalString(n) ==
    IF n < 10 THEN <<n>> ELSE ToDecimalString(n \div 10) \o <<n % 10>>

\* getContractBalance: (await contract.getBalance()).toString()
GetContractBalanceValue(s) == ToDecimalString(GetBalanceValue(s))

Queries == {"nonces", "getBalance", "getNonce", "getContractBalance"}

\* the queries that take an account
AccountQueries == {"nonces", "getNonce"}

\* the queries that go through the backend's provider, whose call can fail
BackendQueries == {"getNonce", "getContractBalance"}

\* an answer that depends on the block it is asked in
QueryValueTimed(q, arg, s) ==
    IF q = "nonces" THEN NoncesValue(s, arg) + s.now
    ELSE IF q = "getBalance" THEN GetBalanceValue(s) + s.now
    ELSE IF q = "getNonce" THEN GetNonceValue(s, arg) + s.now
    ELSE ToDecimalString(GetBalanceValue(s) + s.now)

QueryValue(q, arg, s) ==
    IF q = "nonces" THEN NoncesValue(s, arg)
    ELSE IF q = "getBalance" THEN GetBalanceValue(s)
    ELSE IF q = "getNonce" THEN GetNonceValue(s, arg)
    ELSE GetContractBalanceValue(s)

\* what a query can see of the vault
Visible(s) == [nonces |-> s.nonces, bal |-> s.bal, owner |-> s.owner]

\* query q is asked; the answer is kept as the latest one
Query(q, arg, rpcOk) ==
    /\ last = None
    /\ (q \in AccountQueries) <=> (arg \in Accounts)
    /\ rpcOk \/ q \in BackendQueries
    /\ IF rpcOk
       THEN /\ last' = [op |-> q, arg |-> arg, result |-> "ok",
                        value |-> QueryValue(q, arg, ChainState), pre |-> ChainState,
                        before |-> lastRead]
            /\ lastRead' = [op |-> q, arg |-> arg,
                            value |-> QueryValue(q, arg, ChainState),
                            at |-> Visible(ChainState)]
       ELSE /\ last' = [op |-> q, arg |-> arg, result |-> "call failed",
                        pre |-> ChainState, before |-> lastRead]
            /\ lastRead' = lastRead
    /\ UNCHANGED <<nonces, owner, bal, now, events, redeemed, race, sessions,
                   backendDomain, receiver, reported>>

NextQueries ==
    \/ \E q \in Queries, arg \in Accounts \cup {"no argument"}, rpcOk \in BOOLEAN :
            Query(q, arg, rpcOk)
    \/ \E recipient \in Accounts, amount \in Amounts :
        \E tokenErr \in TransferFailures(bal, VaultAddr, amount) :
            DirectWithdraw(recipient, amount, tokenErr)
    \/ \E caller \in Accounts, newOwner \in Accounts \cup {ZeroAddr} :
            TransferOwnership(caller, newOwner)
    \/ Tick
    \/ Return

SpecQueries == Init /\ [][NextQueries]_vars

---------------------------------------------------------------------------
(* Properties of withdrawTo *)

IsWithdraw == last.op = "withdrawTo"

Succeeded == last.result = "ok"

\* the call of the receipt carries recipient's own signature over
\* {recipient, amount, stored nonce, deadline} under the vault's domain
ValidAuthorization ==
    last.call.signature =
        OwnSignature(last.call.recipient, last.call.amount,
                     last.pre.nonces[last.call.recipient], last.call.deadline)

Unexpired == last.pre.now <= last.call.deadline

Funded == last.pre.bal[VaultAddr] >= last.call.amount

NonceRaisedByOne ==
    nonces[last.call.recipient] = last.pre.nonces[last.call.recipient] + 1

\* C1 (as stated): a withdrawTo carrying recipient's signature over the message
\* at the stored nonce, called at a time <= deadline, succeeds and raises
\* nonces[recipient] by exactly 1.
C1_ValidCallSucceeds ==
    (IsWithdraw /\ Unexpired /\ ValidAuthorization)
        => (Succeeded /\ NonceRaisedByOne)

\* C1 (amended): a withdrawTo carrying recipient's signature over the message
\* at the stored nonce, called at a time <= deadline while the vault holds at
\* least amount tokens, succeeds and raises nonces[recipient] by exactly 1.
C1_ValidFundedCallSucceeds ==
    (IsWithdraw /\ Unexpired /\ ValidAuthorization /\ Funded)
        => (Succeeded /\ NonceRaisedByOne)

C1_Witness ==
    /\ IsWithdraw /\ Unexpired /\ ValidAuthorization /\ Funded
    /\ Succeeded
    /\ last.pre.nonces[last.call.recipient] = 1

\* C2: replay protection: a withdrawTo whose (recipient, amount, deadline,
\* signature) already succeeded once never succeeds again, whatever happened
\* in between.
C2_ReplayFails ==
    (IsWithdraw /\ last.replay) => ~Succeeded

C2_Witness ==
    /\ IsWithdraw /\ last.replay
    /\ Unexpired /\ Funded
    /\ last.result = "Invalid signer"

\* C3: no step lowers or resets a stored nonce; a step that changes one raises
\* it by exactly 1.
C3_NonceMonotone ==
    [][\A a \in Accounts : nonces'[a] = nonces[a] \/ nonces'[a] = nonces[a] + 1]_vars

C3_Witness ==
    /\ IsWithdraw /\ Succeeded
    /\ last.pre.nonces[last.call.recipient] = 1
    /\ nonces[last.call.recipient] = 2

\* both transactions of the pair are mined
RaceOk(i) == race.results[i] = "ok"

\* transaction i of the pair was mined within its deadline, for an amount the
\* vault held when the pair was submitted
RaceRedeemable(i) ==
    /\ race.pre[i].now <= race.txs[i].deadline
    /\ race.at.bal[VaultAddr] >= race.txs[i].amount

C5_DeadlineInclusive ==
    (IsWithdraw /\ ValidAuthorization) =>
        /\ (last.pre.now > last.call.deadline) => ~Succeeded
        /\ (last.pre.now = last.call.deadline) => Succeeded

\* C5 (amended): with an otherwise valid signature, withdrawTo fails when
\* block.timestamp > deadline, and succeeds when block.timestamp = deadline
\* and the vault holds at least amount tokens.
C5_DeadlineInclusiveFunded ==
    (IsWithdraw /\ ValidAuthorization) =>
        /\ (last.pre.now > last.call.deadline) => ~Succeeded
        /\ (last.pre.now = last.call.deadline /\ Funded) => Succeeded

C5_Witness ==
    /\ IsWithdraw /\ ValidAuthorization /\ Funded
    /\ last.pre.now = 1
    /\ last.call.deadline = 1
    /\ Succeeded

\* the signer the vault recovers for the call of the receipt
RecoveredSigner ==
    Recover(HashTypedDataV4(StructHash(last.call.recipient, last.call.amount,
                                       last.pre.nonces[last.call.recipient],
                                       last.call.deadline)),
            last.call.signature)

\* C6: a withdrawTo whose signature was made with another key than recipient's
\* never succeeds; whenever the signer the vault recovers differs from
\* recipient the call fails with "Invalid signer" and no balance changes.
C6_SelfAuthorizationOnly ==
    (IsWithdraw /\ last.call.signature.kind = "sig") =>
        /\ (last.call.signature.key # last.call.recipient) => ~Succeeded
        /\ (Unexpired /\ RecoveredSigner # last.call.recipient) =>
              /\ last.result = "Invalid signer"
              /\ bal = last.pre.bal

C6_Witness ==
    /\ IsWithdraw /\ Unexpired /\ Funded
    /\ \E k \in Accounts \ {last.call.recipient} :
          last.call.signature =
              SignTyped(k, VaultDomain,
                        [recipient |-> last.call.recipient, amount |-> last.call.amount,
                         nonce |-> last.pre.nonces[last.call.recipient],
                         deadline |-> last.call.deadline])
    /\ last.result = "Invalid signer"

\* C7: a signature made under a domain that differs from the vault's in name,
\* version, chain id or verifying contract is never accepted by the vault,
\* whoever signed and whatever the message.
C7_DomainIsolation ==
    (/\ IsWithdraw
     /\ last.call.signature.kind = "sig"
     /\ last.call.signature.domain # VaultDomain)
        => ~Succeeded

C7_Witness ==
    /\ IsWithdraw /\ Unexpired /\ Funded
    /\ last.call.signature =
          SignTyped(last.call.recipient, [VaultDomain EXCEPT !.chainId = 5],
                    [recipient |-> last.call.recipient, amount |-> last.call.amount,
                     nonce |-> last.pre.nonces[last.call.recipient],
                     deadline |-> last.call.deadline])
    /\ last.result = "Invalid signer"

\* call c carries an authorization that its recipient signed with nonce n
AuthorizedAt(c, n) ==
    /\ c.signature.kind = "sig"
    /\ c.signature.key = c.recipient
    /\ c.signature.message.nonce = n

\* C8: among the authorizations an account signed with one nonce n, for any
\* amounts and deadlines, at most one is ever redeemed.
C8_OneRedemptionPerNonce ==
    \A i, j \in DOMAIN redeemed :
        (i # j /\ redeemed[i].recipient = redeemed[j].recipient)
            => ~\E n \in NonceValues :
                    AuthorizedAt(redeemed[i], n) /\ AuthorizedAt(redeemed[j], n)

C8_Witness ==
    /\ IsWithdraw /\ Unexpired /\ Funded /\ ~Succeeded
    /\ \E i \in DOMAIN redeemed :
          /\ redeemed[i].recipient = last.call.recipient
          /\ redeemed[i] # last.call
          /\ \E n \in NonceValues :
                AuthorizedAt(redeemed[i], n) /\ AuthorizedAt(last.call, n)

\* C9: withdrawTo hashes the stored nonces[recipient]: a signature over a
\* message whose nonce is not the stored one, lower or higher, is rejected.
C9_StoredNonceOnly ==
    (/\ IsWithdraw
     /\ last.call.signature.kind = "sig"
     /\ last.call.signature.message.nonce # last.pre.nonces[last.call.recipient])
        => ~Succeeded

C9_Witness ==
    /\ IsWithdraw /\ Unexpired /\ Funded
    /\ last.call.signature =
          OwnSignature(last.call.recipient, last.call.amount,
                       last.pre.nonces[last.call.recipient] + 1, last.call.deadline)
    /\ last.result = "Invalid signer"

\* C10: a withdrawTo whose token transfer fails reverts with a transfer error,
\* which is neither the expiry nor the invalid-signer error, and leaves nonces,
\* balances and events as they were; a receipt whose nonce advanced always
\* comes with the funds moved.
C10_TransferFailureRollsBack ==
    IsWithdraw =>
        /\ (Unexpired /\ ValidAuthorization /\ ~Funded) =>
              /\ last.result \in TransferErrors
              /\ last.result \notin {"Signature expired", "Invalid signer", "ok"}
              /\ nonces = last.pre.nonces
              /\ bal = last.pre.bal
              /\ events = last.pre.events
        /\ (nonces # last.pre.nonces) =>
              /\ bal[VaultAddr] = last.pre.bal[VaultAddr] - last.call.amount
              /\ bal[last.call.recipient] =
                    last.pre.bal[last.call.recipient] + last.call.amount

C10_Witness ==
    /\ IsWithdraw /\ Unexpired /\ ValidAuthorization /\ ~Funded
    /\ last.result = "Transfer failed"
    /\ last.pre.nonces[last.call.recipient] = 1
    /\ nonces = last.pre.nonces

\* the Withdraw record a successful call of the receipt has to emit
ExpectedWithdrawRecord ==
    [recipient |-> last.call.recipient, amount |-> last.call.amount,
     nonce |-> last.pre.nonces[last.call.recipient]]

\* C11: a successful withdrawTo appends exactly one Withdraw record
\* {recipient, amount, nonce} to the events, its nonce being the stored nonce
\* before the increment, which is the nonce of the signed message; a failed
\* withdrawTo leaves the events as they were.
C11_OneWithdrawRecord ==
    IsWithdraw =>
        /\ Succeeded =>
              /\ events = Append(last.pre.events, ExpectedWithdrawRecord)
              /\ last.call.signature.message.nonce = ExpectedWithdrawRecord.nonce
        /\ ~Succeeded => events = last.pre.events

C11_Witness ==
    /\ IsWithdraw /\ Succeeded
    /\ Len(last.pre.events) = 1
    /\ Len(events) = 2
    /\ events[2].nonce = 1
    /\ last.call.signature.message.nonce = 1

\* what the pair of transactions came to as it was mined: for each, whether it
\* succeeded and the nonce of its recipient afterwards
MinedOutcome ==
    [k \in {1, 2} |->
        [ok |-> race.results[k] = "ok", nonce |-> nonces[race.txs[k].recipient]]]

\* what the pair comes to when mined the other way round in the same two
\* blocks, from the state it was submitted in
SwappedOutcome ==
    LET i == race.order[1]
        j == race.order[2]
        ci == race.txs[i]
        cj == race.txs[j]
        rj == WithdrawExec([race.at EXCEPT !.now = race.pre[i].now], cj.recipient,
                           cj.amount, cj.deadline, cj.signature, "Transfer failed")
        ri == WithdrawExec([rj.state EXCEPT !.now = race.pre[j].now], ci.recipient,
                           ci.amount, ci.deadline, ci.signature, "Transfer failed")
    IN [k \in {1, 2} |->
          [ok |-> (IF k = i THEN ri.result ELSE rj.result) = "ok",
           nonce |-> ri.state.nonces[race.txs[k].recipient]]]

\* both authorizations are unexpired in both blocks
ParallelValid ==
    \A k \in {1, 2} : \A m \in {1, 2} : race.pre[m].now <= race.txs[k].deadline

\* the vault held the two amounts together when the pair was submitted
ParallelFunded ==
    race.at.bal[VaultAddr] >= race.txs[1].amount + race.txs[2].amount

---------------------------------------------------------------------------
(* Properties of the backend *)

\* sessions s1 and s2 hold authorizations whose createWithdrawalRequest calls
\* ran concurrently: one read the nonce while the other was under way
ConcurrentlyIssued(s1, s2) ==
    /\ sessions[s1].phase = "issued"
    /\ sessions[s2].phase = "issued"
    /\ s2 \in sessions[s1].overlaps \/ s1 \in sessions[s2].overlaps

\* C13: two createWithdrawalRequest calls for the same account that run
\* concurrently never return authorizations carrying the same nonce.
C13_ConcurrentNoncesDiffer ==
    \A s1, s2 \in Sessions :
        (/\ s1 # s2
         /\ ConcurrentlyIssued(s1, s2)
         /\ sessions[s1].request.data.recipient = sessions[s2].request.data.recipient)
            => sessions[s1].request.data.nonce # sessions[s2].request.data.nonce

IsIssue == last.op = "createWithdrawalRequest" /\ last.result = "ok"

\* C14: the request createWithdrawalRequest returns carries the nonce the
\* vault stored for recipient when the call read it, and the deadline
\* floor(Date.now() / 1000) + window * 60, the window being 30 minutes when
\* none is given.
C14_IssuedNonceAndDeadline ==
    IsIssue =>
        /\ last.request.data.recipient = last.recipient
        /\ last.request.data.amount = last.amount
        /\ last.request.data.nonce = last.seen
        /\ last.request.data.deadline =
              (last.ms \div 1000)
                + 60 * (IF last.window.given THEN last.window.minutes ELSE 30)

C14_Witness ==
    /\ IsIssue
    /\ last.window = NoWindow
    /\ last.ms = 999
    /\ last.request.data.deadline = 1800
    /\ last.seen = 1
    /\ last.request.data.nonce = 1
    /\ nonces[last.recipient] = 2

IsProcess == last.op = "processWithdrawal"

\* C15: in an issue, sign, process flow for one account during which no other
\* redemption for that account succeeds, the message the frontend signed, the
\* message verifySignature rebuilds and the message withdrawTo rebuilds are
\* the same encoding: the Withdraw type hash, then recipient, amount, nonce
\* and deadline, in that order.
C15_ThreeWayConsistent ==
    (IsProcess /\ last.via = "issued" /\ ~last.interfered) =>
        /\ last.signed =
              VaultEncode(last.call.recipient, last.call.amount,
                          last.call.signature.message.nonce, last.call.deadline)
        /\ (last.relayed # NoMessage) => last.relayed = last.signed
        /\ (last.rebuilt # NoMessage) => last.rebuilt = last.signed

C15_Witness ==
    /\ IsProcess /\ last.via = "issued" /\ ~last.interfered
    /\ last.submitted /\ last.result = "ok"
    /\ last.pre.nonces[last.call.recipient] = 1
    /\ last.relayed = last.signed
    /\ last.rebuilt = last.signed
    /\ last.signed[4] = 1

\* the vault instance the backend was constructed with (contractAddress)
ContractAddress == VaultAddr

\* C16: the domain the backend puts in issued requests is the domain of the
\* vault it submits to: verifyingContract is the contractAddress it was
\* constructed with, and name, version and chain id are the vault's.
C16_BackendDomainIsVaultDomain ==
    IsIssue =>
        /\ last.request.domain.verifyingContract = ContractAddress
        /\ last.request.domain.name = VaultDomain.name
        /\ last.request.domain.version = VaultDomain.version
        /\ last.request.domain.chainId = VaultDomain.chainId

\* C17: failure reasons are never collapsed: the errors reported for a stale
\* or already redeemed nonce, for a wrong signer and for an expired deadline
\* are pairwise different.
C17_ReasonsNeverCollapsed ==
    \A p, q \in reported : (p.cause # q.cause) => (p.error # q.error)

---------------------------------------------------------------------------
(* Expiry and frame properties of the vault *)

\* C18: block.timestamp never goes back, and whenever it has passed the
\* deadline of an authorization, withdrawTo with that authorization fails
\* with "Signature expired" and changes no nonce: the authorization is dead
\* from then on without any state of the vault having changed.
C18_ExpiredStaysInvalid ==
    [][/\ now' >= now
       /\ (last'.op = "withdrawTo" /\ last'.pre.now > last'.call.deadline) =>
             /\ last'.result = "Signature expired"
             /\ nonces' = last'.pre.nonces
             /\ nonces' = nonces]_vars

C18_Witness ==
    /\ IsWithdraw /\ ValidAuthorization /\ Funded
    /\ last.call.deadline = 0
    /\ last.pre.now = 2
    /\ last.result = "Signature expired"
    /\ nonces = [a \in Accounts |-> 0]

\* the operations that are no withdrawTo
OtherOps == {"transferToken", "transferOwnership", "getBalance", "nonces"}

\* C19: only a successful withdrawTo changes a nonce: transferToken,
\* transferOwnership, getBalance, nonces reads and failed withdrawTo calls
\* leave every nonce as it was, and a successful withdrawTo(R, ...) leaves the
\* nonce of every account but R as it was.
C19_OnlyWithdrawChangesNonce ==
    [][/\ (nonces' # nonces) =>
             /\ last'.op = "withdrawTo"
             /\ last'.result = "ok"
             /\ \A a \in Accounts \ {last'.call.recipient} : nonces'[a] = nonces[a]
       /\ (last' # last /\ last'.op \in OtherOps) => nonces' = nonces
       /\ (last' # last /\ last'.op = "withdrawTo" /\ last'.result # "ok")
             => nonces' = nonces]_vars

C19_Witness ==
    /\ last.op = "transferToken" /\ last.result = "ok"
    /\ last.pre.nonces[last.recipient] = 1
    /\ nonces = last.pre.nonces
    /\ bal # last.pre.bal

IsQuery == last.op \in Queries /\ last.result = "ok"

\* the query of the receipt repeats the latest answered query, and the vault
\* is as it was then
Repeated ==
    /\ last.before # None
    /\ last.before.op = last.op
    /\ last.before.arg = last.arg
    /\ last.before.at = Visible(last.pre)

\* C20: nonces(account), getBalance(), getNonce and getContractBalance change
\* no nonce, balance or owner, whether they succeed or fail, and a query
\* repeated on an unchanged vault returns the value it returned before.
C20_QueriesReadOnly ==
    (last.op \in Queries) =>
        /\ nonces = last.pre.nonces
        /\ bal = last.pre.bal
        /\ owner = last.pre.owner
        /\ (IsQuery /\ Repeated) => last.value = last.before.value

C20_Witness ==
    /\ IsQuery /\ Repeated
    /\ last.op = "getNonce"
    /\ last.value = 1
    /\ last.before.value = 1
    /\ last.pre.now = 1

---------------------------------------------------------------------------
(* Owner operations *)

IsOwnerOp == last.op \in {"transferOwnership", "transferToken"}

\* an owner operation by someone who is not the owner fails with
\* "Not authorized" and changes nothing; one that succeeds was called by the
\* owner; the owner's transferOwnership to the zero address is rejected
OwnerOnly ==
    /\ Succeeded => last.caller = last.pre.owner
    /\ (last.caller # last.pre.owner) =>
          /\ last.result = "Not authorized"
          /\ ChainState = last.pre
    /\ (last.op = "transferOwnership" /\ last.caller = last.pre.owner
            /\ last.newOwner = ZeroAddr) =>
          /\ last.result = "Invalid new owner"
          /\ ChainState = last.pre
    /\ (last.op = "transferOwnership" /\ Succeeded) => owner = last.newOwner

\* in the current state account a is refused both owner operations
LockedOut(a) ==
    /\ \A newOwner \in Accounts \cup {ZeroAddr} :
          TransferOwnershipExec(ChainState, a, newOwner).result = "Not authorized"
    /\ \A recipient \in Accounts, amount \in Amounts :
          TransferTokenExec(ChainState, a, recipient, amount, "Transfer failed").result
              = "Not authorized"

\* C21 (as stated): transferOwnership and transferToken succeed only for the
\* current owner and otherwise fail with "Not authorized" changing nothing,
\* the zero address is rejected as new owner, and after a successful
\* transferOwnership(newOwner) the previous owner can call neither.
C21_OwnerPermission ==
    IsOwnerOp =>
        /\ OwnerOnly
        /\ (last.op = "transferOwnership" /\ Succeeded) => LockedOut(last.pre.owner)

\* C21 (amended): as above, the previous owner being locked out after a
\* successful transferOwnership(newOwner) whenever newOwner is another
\* account than the previous owner.
C21_OwnerPermissionUnlessSelf ==
    IsOwnerOp =>
        /\ OwnerOnly
        /\ (last.op = "transferOwnership" /\ Succeeded
                /\ last.newOwner # last.pre.owner) => LockedOut(last.pre.owner)

C21_Witness ==
    /\ last.op = "transferToken"
    /\ last.caller = Deployer
    /\ last.pre.owner # Deployer
    /\ last.pre.bal[VaultAddr] >= last.amount
    /\ last.result = "Not authorized"
    /\ bal = last.pre.bal

---------------------------------------------------------------------------
(* The order of processWithdrawal *)

\* the arguments the processWithdrawal of session c was called with
HeldCall(c) == Call(c.recipient, c.amount, c.deadline, c.signature)

\* C22: processWithdrawal reaches contract.withdrawTo only after
\* verifySignature returned true for the same recipient, amount, deadline and
\* signature; when it returned false the call throws "Invalid signature" and
\* no transaction is submitted (the chain is left as it was).
C22_VerifyBeforeSubmit ==
    [][ LET c == sessions[1]
            d == sessions'[1]
        IN /\ (c.phase = "signed" /\ d.phase = "verified") =>
                 /\ VerifySignature(ChainState, backendDomain, c.recipient, c.amount,
                                    c.deadline, c.signature, TRUE)
                 /\ HeldCall(d) = HeldCall(c)
           /\ (last = None /\ last'.op = "processWithdrawal") =>
                 IF c.phase = "verified"
                 THEN /\ last'.submitted
                      /\ last'.call = HeldCall(c)
                      /\ last'.result =
                            WithdrawExec(ChainState, c.recipient, c.amount, c.deadline,
                                         c.signature, "Transfer failed").result
                         \/ last'.result \in TransferErrors
                 ELSE /\ c.phase = "signed"
                      /\ ~VerifySignature(ChainState, backendDomain, c.recipient,
                                          c.amount, c.deadline, c.signature,
                                          last'.relayed # NoMessage)
                      /\ ~last'.submitted
                      /\ last'.result = "Invalid signature"
                      /\ <<nonces, owner, bal, now, events, redeemed>>'
                            = <<nonces, owner, bal, now, events, redeemed>>
      ]_vars

C22_Witness ==
    /\ IsProcess
    /\ ~last.submitted
    /\ last.result = "Invalid signature"
    /\ last.call.signature.key # last.call.recipient
    /\ last.pre.bal[VaultAddr] >= last.call.amount
    /\ ChainState = last.pre
    /\ Len(redeemed) > 0

---------------------------------------------------------------------------
(* The browser flow *)

\* C23: a withdrawWithBackend flow sends to /api/withdrawal/process the
\* deadline of the message the user signed and, with the connected wallet
\* equal to recipient, sufficient vault funds and no interfering redemption,
\* ends in a successful withdrawTo.
C23_BrowserFlowCompletes ==
    /\ (/\ last.op = "withdrawWithBackend"
        /\ last.wallet = last.recipient
        /\ last.pre.bal[VaultAddr] >= last.amount
        /\ ~last.interfered) =>
          /\ Get(last.body, "deadline") = Defined(last.message.deadline)
          /\ last.result = "ok"
    /\ (/\ IsProcess /\ last.via = "browser"
        /\ last.call.signature.key = last.call.recipient
        /\ last.pre.bal[VaultAddr] >= last.call.amount
        /\ ~last.interfered) =>
          /\ last.call.deadline = last.call.signature.message.deadline
          /\ last.result = "ok"

---------------------------------------------------------------------------
(* Receiver.withdraw *)

\* C24: Receiver.withdraw called by the owner moves the Receiver's whole
\* token balance to the owner (the token being a standard ERC20 whose
\* transferFrom requires an allowance from the source account to the
\* caller); called by any other account it fails with "Not authorized" and
\* moves nothing.
C24_OwnerWithdrawsAll ==
    (last.op = "withdraw") =>
        IF last.caller = last.pre.owner
        THEN /\ last.result = "ok"
             /\ receiver.bal[ReceiverAddr] = 0
             /\ receiver.bal[last.pre.owner] =
                   last.pre.bal[last.pre.owner] + last.pre.bal[ReceiverAddr]
        ELSE /\ last.result = "Not authorized"
             /\ receiver.bal = last.pre.bal

---------------------------------------------------------------------------
(* Failed withdrawals *)

\* the reasons a withdrawTo can fail with
FailureReasons == {"Signature expired", "ECDSAInvalidSignature", "Invalid signer"}
                      \cup TransferErrors

\* C25: every failed withdrawTo, whatever the reason (expired, malformed
\* signature, wrong signer, stale nonce, transfer failure), leaves the vault's
\* nonces, token balances and owner exactly as they were before the call.
C25_FailureChangesNothing ==
    (IsWithdraw /\ ~Succeeded) =>
        /\ last.result \in FailureReasons
        /\ nonces = last.pre.nonces
        /\ bal = last.pre.bal
        /\ owner = last.pre.owner

C25_Witness ==
    /\ IsWithdraw
    /\ last.result \in TransferErrors
    /\ last.call.amount > last.pre.bal[VaultAddr]
    /\ last.pre.bal[VaultAddr] > 0
    /\ last.pre.nonces[last.call.recipient] = 1
    /\ nonces = last.pre.nonces /\ bal = last.pre.bal /\ owner = last.pre.owner

---------------------------------------------------------------------------
(* Parameters bound by the signature *)

\* the signature of the receipt is a signer's own authorization under the
\* vault's domain at the signer's stored nonce
GenuineSignature ==
    LET g == last.call.signature
    IN /\ g.kind = "sig"
       /\ g.domain = VaultDomain
       /\ g.key = g.message.recipient
       /\ g.message.nonce = last.pre.nonces[g.key]

\* the call names another recipient, amount or deadline than the message
Tampered ==
    LET m == last.call.signature.message
    IN \/ last.call.recipient # m.recipient
       \/ last.call.amount # m.amount
       \/ last.call.deadline # m.deadline

\* C26: a withdrawTo called with a recipient, amount or deadline that differs
\* from the value in the signed message fails and moves no funds, even when
\* the signature is otherwise genuine and unexpired; with the deadline of the
\* call not passed the failure is "Invalid signer".
C26_SignatureBindsParameters ==
    (IsWithdraw /\ GenuineSignature /\ Tampered) =>
        /\ ~Succeeded
        /\ bal = last.pre.bal
        /\ nonces = last.pre.nonces
        /\ Unexpired => last.result = "Invalid signer"

C26_Witness ==
    /\ IsWithdraw /\ GenuineSignature /\ Funded /\ Unexpired
    /\ last.pre.now <= last.call.signature.message.deadline
    /\ last.call.recipient = last.call.signature.message.recipient
    /\ last.call.deadline = last.call.signature.message.deadline
    /\ last.call.amount > last.call.signature.message.amount
    /\ last.result = "Invalid signer"
    /\ bal = last.pre.bal

---------------------------------------------------------------------------
(* Nonces, successes and records *)

\* the number of withdrawTo calls for account that succeeded so far
SuccessesFor(account) ==
    Cardinality({i \in DOMAIN redeemed : redeemed[i].recipient = account})

\* the Withdraw records emitted for account, in emission order
RecordsFor(account) == SelectSeq(events, LAMBDA e : e.recipient = account)

\* C27: in every reachable state, for every account R, nonces[R] is the
\* number of successful withdrawTo calls for R so far, and the Withdraw
\* records emitted for R carry the nonces 0, 1, 2, ... in emission order,
\* without gap or repeat, one for each success.
C27_NonceCountsSuccesses ==
    \A R \in Accounts :
        /\ nonces[R] = SuccessesFor(R)
        /\ Len(RecordsFor(R)) = nonces[R]
        /\ \A i \in 1..Len(RecordsFor(R)) : RecordsFor(R)[i].nonce = i - 1

C27_Witness ==
    \E R \in Accounts :
        /\ nonces[R] = 2
        /\ SuccessesFor(R) = 2
        /\ RecordsFor(R) = <<[recipient |-> R, amount |-> 1, nonce |-> 0],
                             [recipient |-> R, amount |-> 1, nonce |-> 1]>>

---------------------------------------------------------------------------
(* Token conservation *)

\* the amount of a receipt that is a successful withdrawTo or transferToken
PaidAmount(receipt) ==
    IF receipt.op = "withdrawTo" /\ receipt.result = "ok" THEN receipt.call.amount
    ELSE IF receipt.op = "transferToken" /\ receipt.result = "ok" THEN receipt.amount
    ELSE 0

\* the same, a transferToken that names the vault itself as recipient
\* counting for nothing
PaidAway(receipt) ==
    IF receipt.op = "transferToken" /\ receipt.recipient = VaultAddr THEN 0
    ELSE PaidAmount(receipt)

\* the vault's balance starts at InitVaultBalance, never is below zero, and a
\* successful withdrawTo(R, amount, ...) raises R's balance by amount
FundsMoveToRecipient ==
    /\ (last = None) => bal[VaultAddr] >= 0
    /\ (last = None /\ last'.op = "withdrawTo" /\ last'.result = "ok") =>
          /\ bal'[VaultAddr] = bal[VaultAddr] - last'.call.amount
          /\ bal'[last'.call.recipient] = bal[last'.call.recipient] + last'.call.amount
    /\ (last # None) => bal' = bal

\* C28 (as stated): a successful withdrawTo(R, amount, ...) lowers the
\* vault's balance by amount and raises R's by amount; the vault's balance
\* is its initial balance minus the sum of the amounts of all successful
\* withdrawTo and transferToken calls (every call lowers it by its amount
\* when it succeeds and by nothing when it fails) and is never below zero.
C28_TokenConservation ==
    [][ /\ FundsMoveToRecipient
        /\ (last = None) => bal'[VaultAddr] = bal[VaultAddr] - PaidAmount(last')
      ]_vars

\* C28 (amended): as above, the sum being taken over the successful
\* withdrawTo calls and the successful transferToken calls whose recipient
\* is not the vault itself.
C28_TokenConservationButSelf ==
    [][ /\ FundsMoveToRecipient
        /\ (last = None) => bal'[VaultAddr] = bal[VaultAddr] - PaidAway(last')
      ]_vars

C28_Witness ==
    /\ IsWithdraw /\ Succeeded
    /\ last.pre.owner # Deployer
    /\ last.pre.bal[VaultAddr] = 1
    /\ last.pre.bal[Deployer] = 1
    /\ last.call.recipient # Deployer
    /\ bal[VaultAddr] = 0
    /\ bal[last.call.recipient] = 1

---------------------------------------------------------------------------
(* Verification and submission *)

\* C29: whenever verifySignature returned true inside a processWithdrawal
\* call, the withdrawTo that call submits does not fail the signer check,
\* also when other redemptions for the same account are processed
\* concurrently.
C29_VerifiedNeverInvalidSigner ==
    (IsProcess /\ last.verified /\ last.submitted) => last.result # "Invalid signer"

---------------------------------------------------------------------------
(* What a withdrawal needs *)

\* C30: a withdrawTo needs nothing but recipient's own signature: in every
\* reachable state every account's own authorization, for any amount up to
\* the vault's whole balance and a deadline not yet passed, is accepted by
\* withdrawTo whoever the owner is (no entitlement of the account and no
\* approval of the owner or the issuer is looked at), and moves the amount
\* to the account.
C30_OwnSignatureSuffices ==
    \A a \in Accounts, amount \in Amounts, deadline \in Deadlines, o \in Accounts :
        (amount <= bal[VaultAddr] /\ now <= deadline) =>
            LET r == WithdrawExec([ChainState EXCEPT !.owner = o], a, amount, deadline,
                                  OwnSignature(a, amount, nonces[a], deadline),
                                  "Transfer failed")
            IN /\ r.result = "ok"
               /\ r.state.bal[a] = bal[a] + amount
               /\ r.state.bal[VaultAddr] = bal[VaultAddr] - amount

C30_Witness ==
    /\ IsWithdraw /\ Succeeded /\ ValidAuthorization
    /\ last.call.recipient # last.pre.owner
    /\ last.caller # last.pre.owner
    /\ last.pre.nonces[last.call.recipient] = 0
    /\ last.call.amount = InitVaultBalance
    /\ last.pre.bal[VaultAddr] = InitVaultBalance
    /\ bal[VaultAddr] = 0
    /\ bal[last.call.recipient] = InitVaultBalance

---------------------------------------------------------------------------
(* The sender of a withdrawTo *)

\* what withdrawTo makes of the call of the receipt in the state before it,
\* computed from the state and the four arguments alone; a failed transfer
\* is reported the way the receipt shows
OutcomeOfCall ==
    WithdrawExec(last.pre, last.call.recipient, last.call.amount, last.call.deadline,
                 last.call.signature, last.result)

\* C31: the result of withdrawTo does not depend on who submits it: the
\* outcome and the state it leaves are those determined by the vault state
\* and (recipient, amount, deadline, signature), whoever the caller is, and
\* on success the funds go to recipient and never to the caller.
C31_CallerIndependent ==
    IsWithdraw =>
        /\ last.result = OutcomeOfCall.result
        /\ ChainState = OutcomeOfCall.state
        /\ Succeeded =>
              /\ bal[last.call.recipient] =
                    last.pre.bal[last.call.recipient] + last.call.amount
              /\ (last.caller # last.call.recipient) =>
                    bal[last.caller] = last.pre.bal[last.caller]

C31_Witness ==
    /\ IsWithdraw /\ Succeeded
    /\ last.caller # last.call.recipient
    /\ last.pre.bal[last.caller] = 1
    /\ bal[last.caller] = 1
    /\ bal[last.call.recipient] = last.call.amount
    /\ bal[VaultAddr] = 0

---------------------------------------------------------------------------
(* The order of the checks of withdrawTo *)

\* the signature of the receipt is malformed, or is not recipient's own
\* authorization for this call at the stored nonce
BadSignature == last.call.signature.kind = "malformed" \/ ~ValidAuthorization

\* C32: withdrawTo checks the deadline before it recovers the signer: a call
\* that is expired and carries a wrong or malformed signature fails with
\* "Signature expired", never with the invalid-signer or the
\* signature-format error.
C32_DeadlineCheckedFirst ==
    (IsWithdraw /\ ~Unexpired /\ BadSignature) =>
        /\ last.result = "Signature expired"
        /\ last.result \notin {"Invalid signer", "ECDSAInvalidSignature"}

C32_Witness ==
    /\ IsWithdraw
    /\ last.pre.now > last.call.deadline
    /\ last.call.signature = Malformed
    /\ last.pre.bal[VaultAddr] >= last.call.amount
    /\ last.result = "Signature expired"

---------------------------------------------------------------------------
(* verifySignature *)

\* recipient's own authorization under the backend's domain at the nonce the
\* vault stores now
BackendAuthorization(recipient, amount, deadline) ==
    SignTyped(recipient, backendDomain,
              [recipient |-> recipient, amount |-> amount, nonce |-> nonces[recipient],
               deadline |-> deadline])

\* C33: verifySignature always returns a boolean and does not look at the
\* deadline: it is false when the nonce read fails or the signature is
\* malformed, and true for an authorization whose signer and nonce match,
\* expired or not; so a "Signature expired" comes from the vault only, after
\* a true verification, and a processWithdrawal whose nonce read failed
\* reports "Invalid signature" without submitting.
C33_VerifyIgnoresDeadline ==
    /\ \A recipient \in Accounts, amount \in Amounts, deadline \in Deadlines :
          /\ ~VerifySignature(ChainState, backendDomain, recipient, amount, deadline,
                              BackendAuthorization(recipient, amount, deadline), FALSE)
          /\ ~VerifySignature(ChainState, backendDomain, recipient, amount, deadline,
                              Malformed, TRUE)
          /\ VerifySignature(ChainState, backendDomain, recipient, amount, deadline,
                             BackendAuthorization(recipient, amount, deadline), TRUE)
    /\ IsProcess =>
          /\ (last.relayed = NoMessage \/ last.call.signature = Malformed) =>
                /\ ~last.verified /\ ~last.submitted
                /\ last.result = "Invalid signature"
          /\ (last.result = "Signature expired") =>
                /\ last.verified /\ last.submitted
                /\ last.pre.now > last.call.deadline

C33_Witness ==
    /\ IsProcess
    /\ last.verified /\ last.submitted
    /\ last.call.signature.key = last.call.recipient
    /\ ~last.interfered
    /\ last.pre.now > last.call.deadline
    /\ last.pre.nonces[last.call.recipient] = 1
    /\ last.result = "Signature expired"

====
